---- MODULE Spec2Model ----
(***************************************************************************)
(* Model of the counter-group measurement harness, runner::run_benchmarks  *)
(* (src/src/runner.rs).  One call of run_benchmarks is a straight-line     *)
(* program: it opens two perf_event groups and twelve counters, brackets   *)
(* the workload with enable/disable once per group, reads both groups and  *)
(* prints a fixed report.  Every `?` is an early error return; every       *)
(* return or unwind drops the locals, which closes their file descriptors. *)
(* main (src/src/main.rs) calls run_benchmarks once per benchmark, each    *)
(* call followed by `?`.                                                   *)
(***************************************************************************)
EXTENDS Integers, Sequences, FiniteSets, TLC

VARIABLES
    name,      \* the `name` argument of the call
    pc,        \* index into Program of the next statement; Len(Program)+1 after the call
    held,      \* the locals that own an open perf_event file descriptor
    members,   \* per group, the counters registered with Builder::group
    enabled,   \* the groups whose counters are currently counting (kernel state)
    counts,    \* result of group.read():   counter -> u64, or NoReading
    counts_2,  \* result of group_2.read(): counter -> u64, or NoReading
    out,       \* the lines the call has printed on standard output, in order
    lookups,   \* history: the Counts index operations performed by the report
    log,       \* history: the counter operations and workload invocations, in order
    result,    \* "running", "ok" (Ok(())), "err" (Err(e)) or "panic" (workload unwound)
    iterations,   \* the third argument of the call (the item-count hint)
    denominator,  \* the fourth argument at the call site (the throughput-denominator hint)
    call,         \* index in MainCalls of the current call; 0 for a call made outside main
    started,      \* history: the names run_benchmarks was called with by main, in order
    returns,      \* history: the results of the calls of main that have returned, in order
    main_result   \* how main ended: status "running", "ok", "err" or "panic", and the error

\* The state of main and the hints of the current call.
mainVars == <<iterations, denominator, call, started, returns, main_result>>

vars == <<name, pc, held, members, enabled, counts, counts_2, out, lookups, log, result,
          mainVars>>

(***************************************************************************)
(* Bounds of the model.                                                    *)
(***************************************************************************)
\* task-clock readings are 0 .. MaxClockMs whole milliseconds
MaxClockMs == 1
\* a small nonzero event count
SmallCount == 3
\* an event count with more than three decimal digits
LargeCount == 2000

(***************************************************************************)
(* Program constants.                                                      *)
(***************************************************************************)
\* divisor of task_clock_msec and of task_clock_s (lines 175 and 176)
NsecPerMsec == 1000000
\* field width of `count` in every metric line ({count:>16})
CountWidth == 16
\* precision of `count` in the first four metric lines ({count:>16.2})
CountPrecision == 2
\* precision of `info` in every metric line ({info:.3})
InfoPrecision == 3
\* factor of the two percentages (* 100.0)
Percent == 100

\* const ITER_COUNT (main.rs line 300)
ITER_COUNT == 10000
\* const SMALL_ITER_COUNT (main.rs line 379)
SMALL_ITER_COUNT == 1000

\* The usize expression `len * iters / div` of a hint.  It is kept unevaluated:
\* the callee never computes with it.
Items(len, iters, div) == [len |-> len, iters |-> iters, div |-> div]

\* Option<usize>
None == [some |-> FALSE, value |-> Items(0, 0, 1)]

Some(v) == [some |-> TRUE, value |-> v]

BenchCall(n, items, denom) == [name |-> n, iterations |-> items, denominator |-> denom]

\* The sixteen calls of main, in source order (main.rs lines 304..497).
MainCalls ==
    << BenchCall("bench_noops", Items(1000, ITER_COUNT, 1), None),
       BenchCall("bench_alu_ops", Items(1000, ITER_COUNT, 1), None),
       BenchCall("bench_alu_ops_unrolled", Items(1000, ITER_COUNT, 1), None),
       BenchCall("bench_alu_ops_super_unrolled", Items(1000, ITER_COUNT, 1), None),
       BenchCall("bench_mul_ops", Items(1000, ITER_COUNT, 1), None),
       BenchCall("bench_sum_of_array", Items(1000, ITER_COUNT, 1),
                 Some(Items(1000, ITER_COUNT, 1))),
       BenchCall("bench_sum_of_array_unrolled", Items(1000, ITER_COUNT, 2),
                 Some(Items(1000, ITER_COUNT, 1))),
       BenchCall("bench_sum_array_1MB", Items(1000000, SMALL_ITER_COUNT, 1),
                 Some(Items(1000000, ITER_COUNT, 1))),
       BenchCall("bench_sum_array_1MB_stride_64", Items(1000000, SMALL_ITER_COUNT, 64),
                 Some(Items(1000000, ITER_COUNT, 64))),
       BenchCall("bench_sum_array_1MB_stride_16", Items(1000000, SMALL_ITER_COUNT, 16),
                 Some(Items(1000000, SMALL_ITER_COUNT, 16))),
       BenchCall("bench_sum_array_1MB_stride_16_prefetch_4",
                 Items(1000000, SMALL_ITER_COUNT, 16),
                 Some(Items(1000000, SMALL_ITER_COUNT, 16))),
       BenchCall("bench_sum_array_1MB_stride_16_prefetch_1",
                 Items(1000000, SMALL_ITER_COUNT, 16),
                 Some(Items(1000000, SMALL_ITER_COUNT, 16))),
       BenchCall("bench_sum_array_stride_16_and_pad", Items(1000000, SMALL_ITER_COUNT, 16),
                 Some(Items(1000000, SMALL_ITER_COUNT, 16))),
       BenchCall("bench_sum_array_stride_128_and_pad",
                 Items(1000000, SMALL_ITER_COUNT, 128),
                 Some(Items(1000000, SMALL_ITER_COUNT, 128))),
       BenchCall("bench_sum_array_changing_stride", Items(1000000, SMALL_ITER_COUNT, 128),
                 Some(Items(1000000, SMALL_ITER_COUNT, 128))),
       BenchCall("bench_sum_array_indirect", Items(100000, SMALL_ITER_COUNT, 64),
                 Some(Items(100000, SMALL_ITER_COUNT, 64))) >>

\* The calls of main explored on their own: the first (no denominator) and
\* the seventh (halved item count, a denominator).
SingleCalls == {MainCalls[i] : i \in {1, 7}}

\* The hints those calls are made with.
CallHints ==
    {[iterations |-> c.iterations, denominator |-> c.denominator] : c \in SingleCalls}

GroupVars == {"group", "group_2"}

\* Statement of run_benchmarks: op, the local it binds or acts on, and the
\* group a builder registers with.
Stmt(op, var, group) == [op |-> op, var |-> var, group |-> group]

\* Lines 73..142: the two groups and the twelve counters, in source order.
OpenStmts ==
    << Stmt("new_group", "group", "group"),
       Stmt("build", "task_clock", "group"),
       Stmt("build", "context_switches", "group"),
       Stmt("build", "cpu_migrations", "group"),
       Stmt("build", "page_faults", "group"),
       Stmt("build", "cycles", "group"),
       Stmt("build", "instructions", "group"),
       Stmt("build", "cache_accesses", "group"),
       Stmt("build", "l1_cache_loads", "group"),
       Stmt("build", "l1_cache_misses", "group"),
       Stmt("build", "l1_cache_prefetches", "group"),
       Stmt("new_group", "group_2", "group_2"),
       Stmt("build", "l2_cache_accesses_from_dc_misses", "group_2"),
       Stmt("build", "l2_cache_hits_from_dc_misses", "group_2") >>

\* The CounterSpec each builder is given with .kind(..) or .raw_config(..)
\* (0xc860 = 51296, 0x7064 = 28772).
CounterSpecs ==
    [task_clock |-> [type |-> "software", config |-> "TASK_CLOCK"],
     context_switches |-> [type |-> "software", config |-> "CONTEXT_SWITCHES"],
     cpu_migrations |-> [type |-> "software", config |-> "CPU_MIGRATIONS"],
     page_faults |-> [type |-> "software", config |-> "PAGE_FAULTS"],
     cycles |-> [type |-> "hardware", config |-> "CPU_CYCLES"],
     instructions |-> [type |-> "hardware", config |-> "INSTRUCTIONS"],
     cache_accesses |-> [type |-> "hardware", config |-> "CACHE_REFERENCES"],
     l1_cache_loads |-> [type |-> "cache", config |-> <<"L1D", "READ", "ACCESS">>],
     l1_cache_misses |-> [type |-> "cache", config |-> <<"L1D", "READ", "MISS">>],
     l1_cache_prefetches |-> [type |-> "cache", config |-> <<"L1D", "PREFETCH", "ACCESS">>],
     l2_cache_accesses_from_dc_misses |-> [type |-> "raw", config |-> 51296],
     l2_cache_hits_from_dc_misses |-> [type |-> "raw", config |-> 28772]]

\* g.enable()?; callback(); g.disable()?;  (lines 144..146 and 148..150)
Cycle(g) ==
    << Stmt("enable", g, g), Stmt("callback", "callback", g), Stmt("disable", g, g) >>

\* let counts = g.read()?;  (lines 171, 172)
ReadStmt(g) == << Stmt("read", g, g) >>

\* Lines 174..285.
ReportStmt == << Stmt("report", "stdout", "") >>

\* A run_benchmarks that measures the workload only once, under the first group.
ProgramSingleRun ==
    OpenStmts \o Cycle("group")
        \o << Stmt("enable", "group_2", "group_2"), Stmt("disable", "group_2", "group_2") >>
        \o ReadStmt("group") \o ReadStmt("group_2") \o ReportStmt

\* A run_benchmarks that reads each group right after disabling it.
ProgramReadPerGroup ==
    OpenStmts \o Cycle("group") \o ReadStmt("group")
        \o Cycle("group_2") \o ReadStmt("group_2") \o ReportStmt

\* A run_benchmarks that measures both groups over a single workload run.
ProgramNested ==
    OpenStmts
        \o << Stmt("enable", "group", "group"), Stmt("enable", "group_2", "group_2"),
              Stmt("callback", "callback", "group"),
              Stmt("disable", "group_2", "group_2"), Stmt("disable", "group", "group") >>
        \o ReadStmt("group") \o ReadStmt("group_2") \o ReportStmt

\* The statements of run_benchmarks in source order (lines 73..285).
Program ==
    OpenStmts \o Cycle("group") \o Cycle("group_2")
        \o ReadStmt("group") \o ReadStmt("group_2") \o ReportStmt

\* A run_benchmarks that invokes the workload once more when a throughput
\* denominator is given.
StatementsByHint(n, items, denom) ==
    IF denom.some
    THEN OpenStmts \o Cycle("group") \o Cycle("group_2") \o Cycle("group_2")
             \o ReadStmt("group") \o ReadStmt("group_2") \o ReportStmt
    ELSE Program

\* The statements a call executes, given its arguments: the body of
\* run_benchmarks has no branch on name or on the hints.
Statements(n, items, denom) == Program

Body == Statements(name, iterations, denominator)

Returned == Len(Body) + 1

Running == pc <= Len(Body)

Cur == Body[pc]

\* The twelve counters built by the call.
CounterVars == {Program[i].var : i \in {j \in 1..Len(Program) : Program[j].op = "build"}}

NoReading == [none |-> TRUE]


(***************************************************************************)
(* Text.  A printed field is a sequence of one-character strings.          *)
(***************************************************************************)
Digit(d) == <<"0", "1", "2", "3", "4", "5", "6", "7", "8", "9">>[d + 1]

RECURSIVE DigitsOf(_)
\* Display of an unsigned integer.
DigitsOf(n) == IF n < 10 THEN <<Digit(n)>> ELSE DigitsOf(n \div 10) \o <<Digit(n % 10)>>

RECURSIVE ZeroPadded(_, _)
\* The w low decimal digits of n, with leading zeros.
ZeroPadded(n, w) == IF w = 0 THEN <<>> ELSE ZeroPadded(n \div 10, w - 1) \o <<Digit(n % 10)>>

RECURSIVE Pow10(_)
Pow10(p) == IF p = 0 THEN 1 ELSE 10 * Pow10(p - 1)

RECURSIVE separate_with_underscores(_)
\* thousands::Separable: groups of three digits from the right, joined by "_".
separate_with_underscores(n) ==
    IF n < 1000 THEN DigitsOf(n)
    ELSE separate_with_underscores(n \div 1000) \o <<"_">> \o ZeroPadded(n % 1000, 3)

RECURSIVE Spaces(_)
Spaces(k) == IF k <= 0 THEN <<>> ELSE <<" ">> \o Spaces(k - 1)

\* {:>w}: right-aligned in a field of at least w characters.
PadLeft(s, w) == Spaces(w - Len(s)) \o s

\* {:.p} on a string: at most the first p characters are emitted.
Truncate(s, p) == IF Len(s) <= p THEN s ELSE SubSeq(s, 1, p)

\* {count:>16} with a String argument.
FmtCount(s) == PadLeft(s, CountWidth)

\* {count:>16.2} with a String argument: truncated to the precision, then padded.
FmtCountPrec(s) == PadLeft(Truncate(s, CountPrecision), CountWidth)

(***************************************************************************)
(* f64 arithmetic.  A finite value carries the exact quotient num/den of   *)
(* the real-number result and `how`, the f64 operations that produced it.  *)
(* Double(how) is the IEEE 754 binary64 value of those operations, each    *)
(* rounded to nearest, ties to even.  The f64 lies within 2^-51 of num/den *)
(* (relative), closer than num/den is to any decimal rounding boundary at  *)
(* precision <= 3 that it is not on, so the two print alike except when    *)
(* num/den is on a boundary: there the side the f64 fell on decides.       *)
(* Division by zero gives the IEEE 754 results inf and NaN.                *)
(***************************************************************************)
\* The limbs of a 53-bit significand are a (17 bits), b (18 bits), c (18 bits).
LimbBits == 18

Limb == 2^LimbBits

TopLimbBits == 17

RECURSIVE BitLen(_)
\* The number of bits of n >= 0.
BitLen(n) == IF n = 0 THEN 0 ELSE 1 + BitLen(n \div 2)

\* A positive binary64: (a * Limb^2 + b * Limb + c) * 2^(e - 52) with the top
\* bit of a set, so 2^e <= value < 2^(e + 1).
Binary64(e, a, b, c) == [e |-> e, a |-> a, b |-> b, c |-> c]

Limbs(x) == <<x.a, x.b, x.c>>

\* The binary64 of a natural n of nb bits, 0 < nb <= 31: exact.
FromBits(n, nb) ==
    IF nb <= TopLimbBits
    THEN Binary64(nb - 1, n * 2^(TopLimbBits - nb), 0, 0)
    ELSE Binary64(nb - 1, n \div 2^(nb - TopLimbBits),
                  (n % 2^(nb - TopLimbBits)) * 2^(LimbBits + TopLimbBits - nb), 0)

\* `n as f64` for 0 < n < 2^31.
FromInt(n) == FromBits(n, BitLen(n))

\* The next binary64 above x.
NextUp(x) ==
    IF x.c + 1 < Limb THEN [x EXCEPT !.c = @ + 1]
    ELSE IF x.b + 1 < Limb THEN [x EXCEPT !.c = 0, !.b = @ + 1]
    ELSE IF x.a + 1 < 2^TopLimbBits THEN [x EXCEPT !.c = 0, !.b = 0, !.a = @ + 1]
    ELSE Binary64(x.e + 1, 2^(TopLimbBits - 1), 0, 0)

\* A significand cut after 53 bits: the bits kept, the first bit dropped
\* (round) and whether any later bit is set (sticky).
Cut(kept, round, sticky) == [kept |-> kept, round |-> round, sticky |-> sticky]

\* Round to nearest, ties to even.
Nearest(t) ==
    IF t.round = 1 /\ (t.sticky \/ t.kept.c % 2 = 1) THEN NextUp(t.kept) ELSE t.kept

\* Comparison, subtraction and doubling of three-limb naturals <<a, b, c>>.
LimbsGeq(x, y) ==
    \/ x[1] > y[1]
    \/ x[1] = y[1] /\ x[2] > y[2]
    \/ x[1] = y[1] /\ x[2] = y[2] /\ x[3] >= y[3]

Borrow(d) == IF d < 0 THEN 1 ELSE 0

LimbsSub(x, y) ==
    << x[1] - y[1] - Borrow(x[2] - y[2] - Borrow(x[3] - y[3])),
       (x[2] - y[2] - Borrow(x[3] - y[3]) + Limb) % Limb,
       (x[3] - y[3] + Limb) % Limb >>

LimbsDouble(x) ==
    << 2 * x[1] + (2 * x[2] + (2 * x[3]) \div Limb) \div Limb,
       (2 * x[2] + (2 * x[3]) \div Limb) % Limb,
       (2 * x[3]) % Limb >>

RECURSIVE QuotientBits(_, _, _, _)
\* The next n bits of the quotient r/y (r < 2y) appended to the bits acc, and
\* the remainder scaled for the bit that follows.
QuotientBits(r, y, n, acc) ==
    IF n = 0 THEN [q |-> acc, r |-> r]
    ELSE IF LimbsGeq(r, y)
         THEN QuotientBits(LimbsDouble(LimbsSub(r, y)), y, n - 1, 2 * acc + 1)
         ELSE QuotientBits(LimbsDouble(r), y, n - 1, 2 * acc)

\* The quotient with limbs a, b, c whose top bit has weight 2^e, cut there;
\* c.r is the remainder scaled for the 54th bit.
CutQuotient(e, a, b, c, y) ==
    Cut(Binary64(e, a, b, c.q),
        IF LimbsGeq(c.r, y) THEN 1 ELSE 0,
        c.r # <<0, 0, 0>> /\ c.r # y)

LowLimb(e, a, b, y) == CutQuotient(e, a, b.q, QuotientBits(b.r, y, LimbBits, 0), y)

MidLimb(e, a, y) == LowLimb(e, a.q, QuotientBits(a.r, y, LimbBits, 0), y)

\* The quotient r/y (y <= r < 2y) with top bit of weight 2^e, cut after 53 bits.
TopLimb(e, r, y) == MidLimb(e, QuotientBits(r, y, TopLimbBits, 0), y)

\* The quotient x/y of two binary64, cut after 53 bits.
Quotient(x, y) ==
    IF LimbsGeq(Limbs(x), Limbs(y))
    THEN TopLimb(x.e - y.e, Limbs(x), Limbs(y))
    ELSE TopLimb(x.e - y.e - 1, LimbsDouble(Limbs(x)), Limbs(y))

\* x / y in binary64.
DivBinary64(x, y) == Nearest(Quotient(x, y))

\* The product a * Limb^2 + b * Limb + c, with a of 17 + s bits, whose top
\* bit has weight 2^e, cut after 53 bits.
CutProduct(e, a, b, c, s) ==
    Cut(Binary64(e, a \div 2^s,
                 b \div 2^s + (a % 2^s) * 2^(LimbBits - s),
                 c \div 2^s + (b % 2^s) * 2^(LimbBits - s)),
        IF s = 0 THEN 0 ELSE (c \div 2^(s - 1)) % 2,
        s > 1 /\ c % 2^(s - 1) # 0)

Product(e, a, b, c) == CutProduct(e + BitLen(a) - TopLimbBits, a, b, c, BitLen(a) - TopLimbBits)

\* x * k in binary64, for an integer 0 < k < 2^13 (k as f64 is exact).
MulBinary64(x, k) ==
    Nearest(Product(x.e,
                    x.a * k + (x.b * k + (x.c * k) \div Limb) \div Limb,
                    (x.b * k + (x.c * k) \div Limb) % Limb,
                    (x.c * k) % Limb))

RECURSIVE Double(_)
\* The binary64 value of a computation: <<"int", n>>, <<"div", h1, h2>> or
\* <<"mul", h, k>>.
Double(how) ==
    CASE how[1] = "int" -> FromInt(how[2])
      [] how[1] = "div" -> DivBinary64(Double(how[2]), Double(how[3]))
      [] how[1] = "mul" -> MulBinary64(Double(how[2]), how[3])

\* The sign of x - v for a binary64 x and a positive real v cut to t.
Compare(x, t) ==
    IF x.e # t.kept.e THEN (IF x.e > t.kept.e THEN 1 ELSE -1)
    ELSE IF x = t.kept THEN (IF t.round = 1 \/ t.sticky THEN -1 ELSE 0)
    ELSE IF LimbsGeq(Limbs(x), Limbs(t.kept)) THEN 1
    ELSE -1

\* The sign of x - n/d for a binary64 x and naturals n, d > 0.
SignOfError(x, n, d) == Compare(x, Quotient(FromInt(n), FromInt(d)))

Finite(n, d, how) == [kind |-> "num", num |-> n, den |-> d, how |-> how]

NaN == [kind |-> "NaN", num |-> 0, den |-> 0, how |-> <<>>]

Infinity == [kind |-> "inf", num |-> 0, den |-> 0, how |-> <<>>]

\* `n as f64`, for a count n < 2^31 (a count of 2^53 or more would be rounded)
AsF64(n) == Finite(n, 1, <<"int", n>>)

RECURSIVE GCD(_, _)
GCD(a, b) == IF b = 0 THEN a ELSE GCD(b, a % b)

\* x / y for finite x >= 0 and y >= 0; num/den is kept in lowest terms
F64Div(x, y) ==
    IF y.num = 0
    THEN IF x.num = 0 THEN NaN ELSE Infinity
    ELSE LET g1 == GCD(x.num, y.num)
             g2 == GCD(x.den, y.den)
         IN  Finite((x.num \div g1) * (y.den \div g2), (x.den \div g2) * (y.num \div g1),
                    <<"div", x.how, y.how>>)

\* x * k for a positive integer constant k
F64Mul(x, k) ==
    IF x.kind = "num"
    THEN LET g == GCD(k, x.den)
         IN  Finite(x.num * (k \div g), x.den \div g, <<"mul", x.how, k>>)
    ELSE x

\* The side of num/den the f64 x lies on: 1 above, -1 below, 0 when equal.
Side(x) == IF x.num = 0 THEN 0 ELSE SignOfError(Double(x.how), x.num, x.den)

RECURSIVE TimesTen(_, _, _, _)
\* 10 * r / d for r < d, as quotient and remainder, by k additions of r.
TimesTen(r, d, k, acc) ==
    IF k = 0 THEN acc
    ELSE LET s == acc.r + r
         IN  TimesTen(r, d, k - 1,
                      IF s >= d THEN [q |-> acc.q + 1, r |-> s - d] ELSE [q |-> acc.q, r |-> s])

RECURSIVE Fraction(_, _, _, _)
\* The first p decimals of r/d (r < d) as a natural, and the remainder after
\* them; 10 * r is formed directly when it is below 2^31.
Fraction(r, d, p, acc) ==
    IF p = 0 THEN [digits |-> acc, r |-> r]
    ELSE IF d <= 2^30 \div 5
         THEN Fraction((10 * r) % d, d, p - 1, 10 * acc + (10 * r) \div d)
         ELSE LET t == TimesTen(r, d, 10, [q |-> 0, r |-> 0])
              IN  Fraction(t.r, d, p - 1, 10 * acc + t.q)

\* Whether num/den, with decimals f after p places, is rounded up: by the
\* rest when it is not an exact half, else by the side the f64 lies on, else
\* (the f64 is the exact half) to the even digit.
RoundsUp(x, p, f, side) ==
    IF f.r # x.den - f.r THEN f.r > x.den - f.r
    ELSE IF side # 0 THEN side > 0
    ELSE (IF p = 0 THEN x.num \div x.den ELSE f.digits) % 2 = 1

Decimal(whole, digits, p) ==
    DigitsOf(whole + digits \div Pow10(p)) \o <<".">> \o ZeroPadded(digits % Pow10(p), p)

Rounded(x, p, f) ==
    Decimal(x.num \div x.den,
            IF RoundsUp(x, p, f, IF f.r = x.den - f.r THEN Side(x) ELSE 0)
            THEN f.digits + 1 ELSE f.digits,
            p)

\* Display of an f64 with precision p ({:.p}): the decimal expansion of the
\* f64, rounded to p decimals, an exact half going to the even digit.
FmtF64(x, p) ==
    IF x.kind = "NaN" THEN <<"N", "a", "N">>
    ELSE IF x.kind = "inf" THEN <<"i", "n", "f">>
    ELSE Rounded(x, p, Fraction(x.num % x.den, x.den, p, 0))

\* The empty &str passed as `info`.
NoInfo == <<>>


(***************************************************************************)
(* The report (lines 174..283).                                            *)
(***************************************************************************)
\* counts[&counter]: the value of a counter in the reading of its group.
Index(reading, counter) == reading[counter]

Lookup(reading, counter) == [reading |-> reading, counter |-> counter]

\* The index expressions of lines 174..176 (task_clock_nsec, _msec, _s).
PreludeLookups ==
    << Lookup("counts", "task_clock"), Lookup("counts", "task_clock"),
       Lookup("counts", "task_clock") >>

\* The index expressions in the arguments of each println! of the report, in
\* the order they are evaluated.
LineLookups ==
    << <<>>,
       <<>>,
       <<>>,
       << Lookup("counts", "context_switches"), Lookup("counts", "context_switches") >>,
       << Lookup("counts", "cpu_migrations"), Lookup("counts", "cpu_migrations") >>,
       << Lookup("counts", "page_faults"), Lookup("counts", "page_faults") >>,
       <<>>,
       << Lookup("counts", "cycles"), Lookup("counts", "cycles") >>,
       << Lookup("counts", "instructions"), Lookup("counts", "instructions"),
          Lookup("counts", "cycles") >>,
       <<>>,
       << Lookup("counts", "cache_accesses") >>,
       << Lookup("counts", "l1_cache_loads") >>,
       << Lookup("counts", "l1_cache_misses"), Lookup("counts", "l1_cache_misses"),
          Lookup("counts", "l1_cache_loads") >>,
       << Lookup("counts", "l1_cache_prefetches") >>,
       << Lookup("counts_2", "l2_cache_accesses_from_dc_misses") >>,
       << Lookup("counts_2", "l2_cache_hits_from_dc_misses"),
          Lookup("counts_2", "l2_cache_hits_from_dc_misses"),
          Lookup("counts_2", "l2_cache_accesses_from_dc_misses") >> >>

RECURSIVE LookupsThrough(_)
\* The index expressions evaluated once the arguments of the k-th println!
\* have been computed.
LookupsThrough(k) ==
    IF k = 0 THEN PreludeLookups ELSE LookupsThrough(k - 1) \o LineLookups[k]

\* Every index expression of a complete report, in the order evaluated.
ReportLookups == LookupsThrough(Len(LineLookups))

\* The index expressions whose counter is not part of the reading indexed:
\* Counts::index panics on the first of them.
UndefinedLookups(c1, c2) ==
    {i \in 1..Len(ReportLookups) :
        ReportLookups[i].counter
            \notin DOMAIN (IF ReportLookups[i].reading = "counts" THEN c1 ELSE c2)}

LookupsDefined(c1, c2) == UndefinedLookups(c1, c2) = {}

\* The lines whose arguments are all evaluated before the u-th index expression.
LinesBefore(u) == Cardinality({k \in 1..Len(LineLookups) : Len(LookupsThrough(k)) < u})

\* A reading completed with zeros for the counters it lacks; used for the
\* lines printed before an index expression panics, which do not read them.
Known(r) ==
    [c \in {l.counter : l \in {ReportLookups[i] : i \in 1..Len(ReportLookups)}} |->
        IF c \in DOMAIN r THEN r[c] ELSE 0]

task_clock_nsec(c1) == AsF64(Index(c1, "task_clock"))

task_clock_msec(c1) == F64Div(AsF64(Index(c1, "task_clock")), AsF64(NsecPerMsec))

task_clock_s(c1) == F64Div(AsF64(Index(c1, "task_clock")), AsF64(NsecPerMsec))

Rule == [kind |-> "rule"]

Header(n) == [kind |-> "header", name |-> n]

Blank == [kind |-> "blank"]

Metric(count, unit, label, info, info_unit) ==
    [kind |-> "metric", count |-> count, unit |-> unit, name |-> label,
     info |-> info, info_unit |-> info_unit]

\* Lines 181..212: the software counters.
SoftwareLines(c1) ==
    << Metric(PadLeft(FmtF64(task_clock_msec(c1), CountPrecision), CountWidth),
              "msec", "task-clock", NoInfo, ""),
       Metric(FmtCountPrec(separate_with_underscores(Index(c1, "context_switches"))),
              "", "context-switches",
              FmtF64(F64Div(AsF64(Index(c1, "context_switches")), task_clock_s(c1)),
                     InfoPrecision),
              "/sec"),
       Metric(FmtCountPrec(separate_with_underscores(Index(c1, "cpu_migrations"))),
              "", "cpu-migrations",
              FmtF64(F64Div(AsF64(Index(c1, "cpu_migrations")), task_clock_s(c1)),
                     InfoPrecision),
              "/sec"),
       Metric(FmtCountPrec(separate_with_underscores(Index(c1, "page_faults"))),
              "", "page-faults",
              FmtF64(F64Div(AsF64(Index(c1, "page_faults")), task_clock_s(c1)),
                     InfoPrecision),
              "/sec") >>

\* Lines 215..230: cycles and instructions.
CpuLines(c1) ==
    << Metric(FmtCount(separate_with_underscores(Index(c1, "cycles"))),
              "", "cycles",
              FmtF64(F64Div(AsF64(Index(c1, "cycles")), task_clock_nsec(c1)),
                     InfoPrecision),
              "GHz"),
       Metric(FmtCount(separate_with_underscores(Index(c1, "instructions"))),
              "", "instructions",
              FmtF64(F64Div(AsF64(Index(c1, "instructions")), AsF64(Index(c1, "cycles"))),
                     InfoPrecision),
              "per cycle") >>

\* Lines 233..283: the cache counters of both groups.
CacheLines(c1, c2) ==
    << Metric(FmtCount(separate_with_underscores(Index(c1, "cache_accesses"))),
              "", "cache accesses", NoInfo, ""),
       Metric(FmtCount(separate_with_underscores(Index(c1, "l1_cache_loads"))),
              "", "L1D cache loads", NoInfo, ""),
       Metric(FmtCount(separate_with_underscores(Index(c1, "l1_cache_misses"))),
              "", "L1D cache misses",
              FmtF64(F64Mul(F64Div(AsF64(Index(c1, "l1_cache_misses")),
                                   AsF64(Index(c1, "l1_cache_loads"))), Percent),
                     InfoPrecision),
              "% of L1D accesses"),
       Metric(FmtCount(separate_with_underscores(Index(c1, "l1_cache_prefetches"))),
              "", "L1D cache prefetches", NoInfo, ""),
       Metric(FmtCount(separate_with_underscores(
                  Index(c2, "l2_cache_accesses_from_dc_misses"))),
              "", "L2 accesses from L1 misses", NoInfo, ""),
       Metric(FmtCount(separate_with_underscores(
                  Index(c2, "l2_cache_hits_from_dc_misses"))),
              "", "L2 hits from L1 misses",
              FmtF64(F64Mul(F64Div(AsF64(Index(c2, "l2_cache_hits_from_dc_misses")),
                                   AsF64(Index(c2, "l2_cache_accesses_from_dc_misses"))),
                            Percent),
                     InfoPrecision),
              "% of L2 accesses") >>

\* A report whose cycles/instructions block comes first.
ReportLinesCpuFirst(n, c1, c2) ==
    <<Rule, Header(n)>> \o CpuLines(c1) \o <<Blank>> \o SoftwareLines(c1)
        \o <<Blank>> \o CacheLines(c1, c2)

\* The lines printed by a successful call, in source order (lines 178..283).
ReportLines(n, c1, c2) ==
    <<Rule, Header(n)>> \o SoftwareLines(c1) \o <<Blank>> \o CpuLines(c1)
        \o <<Blank>> \o CacheLines(c1, c2)

\* A report with one more line, the cycles per item of the item-count hint
\* (the items of one pass of the workload).
PrintedPerItem(n, items, denom, c1, c2) ==
    ReportLines(n, c1, c2)
        \o << Metric(FmtCount(separate_with_underscores(items.len \div items.div)), "",
                     "items",
                     FmtF64(F64Div(AsF64(Index(c1, "cycles")),
                                   AsF64(items.len \div items.div)),
                            InfoPrecision),
                     "cycles per item") >>

\* What a call prints, given its arguments and the two readings: the hints
\* are not used (`iterations` is never read in run_benchmarks).
Printed(n, items, denom, c1, c2) == ReportLines(n, c1, c2)

(***************************************************************************)
(* The operating system's side: what a read of a group can return.         *)
(***************************************************************************)
ClockValues == {k * NsecPerMsec : k \in 0..MaxClockMs}

\* The values a counter may have accumulated when its group is read.
ValuesOf(counter) ==
    CASE counter = "task_clock" -> ClockValues
      [] counter = "cycles" -> {0, SmallCount, LargeCount}
      [] counter \in {"context_switches", "page_faults"} -> {0, LargeCount}
      [] counter = "cache_accesses" -> {LargeCount}
      [] counter = "l1_cache_prefetches" -> {SmallCount}
      [] OTHER -> {0, SmallCount}

RECURSIVE Readings(_)
\* Every mapping counter -> value a read of a group with these members can return.
Readings(cs) ==
    IF cs = {} THEN {<<>>}
    ELSE LET c == CHOOSE x \in cs : TRUE
         IN  {(c :> v) @@ r : v \in ValuesOf(c), r \in Readings(cs \ {c})}

(***************************************************************************)
(* Scope exit.  Returning (Ok or Err) and unwinding both drop every local; *)
(* dropping a Group or Counter closes its file descriptor, and the kernel  *)
(* frees an event whose descriptor is closed, so it no longer counts.      *)
(***************************************************************************)
\* A scope exit that forgets the two Group values instead of dropping them.
DropKeepsGroups(h) == h \cap GroupVars

\* The locals that still own a descriptor after the scope is left.
Drop(h) == {}

\* The groups still counting when the handles in h are the ones left open.
Counting(en, h) == {g \in en : g \in h}

Ev(op, var, group, ok) ==
    [op |-> op, var |-> var, group |-> group, ok |-> ok, during |-> enabled]

\* An error return that leaves the descriptors opened so far open.
ReturnErrLeaking ==
    /\ pc' = Returned
    /\ result' = "err"
    /\ UNCHANGED <<mainVars, name, held, members, enabled, counts, counts_2, out, lookups>>

\* `?` on an Err: the function returns the error and its locals are dropped.
ReturnErr ==
    /\ pc' = Returned
    /\ result' = "err"
    /\ held' = Drop(held)
    /\ enabled' = Counting(enabled, held')
    /\ UNCHANGED <<mainVars, name, members, counts, counts_2, out, lookups>>

Init ==
    /\ \E c \in SingleCalls :
          name = c.name /\ iterations = c.iterations /\ denominator = c.denominator
    /\ pc = 1
    /\ held = {}
    /\ members = [g \in GroupVars |-> {}]
    /\ enabled = {}
    /\ counts = NoReading
    /\ counts_2 = NoReading
    /\ out = <<>>
    /\ lookups = <<>>
    /\ log = <<>>
    /\ result = "running"
    /\ call = 0
    /\ started = <<>>
    /\ returns = <<>>
    /\ main_result = [status |-> "running", error |-> <<>>]

\* Group::new()? succeeds (lines 73, 133).
NewGroupOk ==
    /\ Running /\ Cur.op = "new_group"
    /\ held' = held \cup {Cur.var}
    /\ log' = Append(log, Ev("open", Cur.var, Cur.group, TRUE))
    /\ pc' = pc + 1
    /\ UNCHANGED <<mainVars, name, members, enabled, counts, counts_2, out, lookups, result>>

\* Group::new()? fails.
NewGroupFail ==
    /\ Running /\ Cur.op = "new_group"
    /\ log' = Append(log, Ev("open", Cur.var, Cur.group, FALSE))
    /\ ReturnErr

\* A build that registers every counter with the first group.
BuildOkFirstGroup ==
    /\ Running /\ Cur.op = "build"
    /\ held' = held \cup {Cur.var}
    /\ members' = [members EXCEPT !["group"] = @ \cup {Cur.var}]
    /\ log' = Append(log, Ev("open", Cur.var, Cur.group, TRUE))
    /\ pc' = pc + 1
    /\ UNCHANGED <<mainVars, name, enabled, counts, counts_2, out, lookups, result>>

\* Builder::new().group(&mut g).kind(..).build()? succeeds (lines 75..142).
BuildOk ==
    /\ Running /\ Cur.op = "build"
    /\ held' = held \cup {Cur.var}
    /\ members' = [members EXCEPT ![Cur.group] = @ \cup {Cur.var}]
    /\ log' = Append(log, Ev("open", Cur.var, Cur.group, TRUE))
    /\ pc' = pc + 1
    /\ UNCHANGED <<mainVars, name, enabled, counts, counts_2, out, lookups, result>>

\* build()? fails.
BuildFail ==
    /\ Running /\ Cur.op = "build"
    /\ log' = Append(log, Ev("open", Cur.var, Cur.group, FALSE))
    /\ ReturnErr

\* group.enable()? succeeds (lines 144, 148).
EnableOk ==
    /\ Running /\ Cur.op = "enable"
    /\ enabled' = enabled \cup {Cur.var}
    /\ log' = Append(log, Ev("enable", Cur.var, Cur.group, TRUE))
    /\ pc' = pc + 1
    /\ UNCHANGED <<mainVars, name, held, members, counts, counts_2, out, lookups, result>>

\* An enable that is attempted again after it failed.
EnableRetry ==
    /\ Running /\ Cur.op = "enable"
    /\ log' = Append(log, Ev("enable", Cur.var, Cur.group, FALSE))
    /\ UNCHANGED <<mainVars, name, pc, held, members, enabled, counts, counts_2, out, lookups, result>>

\* group.enable()? fails.
EnableFail ==
    /\ Running /\ Cur.op = "enable"
    /\ log' = Append(log, Ev("enable", Cur.var, Cur.group, FALSE))
    /\ ReturnErr

\* callback() returns (lines 145, 149).
CallbackReturns ==
    /\ Running /\ Cur.op = "callback"
    /\ log' = Append(log, Ev("callback", Cur.var, Cur.group, TRUE))
    /\ pc' = pc + 1
    /\ UNCHANGED <<mainVars, name, held, members, enabled, counts, counts_2, out, lookups, result>>

\* callback() panics: the stack unwinds through run_benchmarks, dropping its locals.
CallbackPanics ==
    /\ Running /\ Cur.op = "callback"
    /\ log' = Append(log, Ev("callback", Cur.var, Cur.group, FALSE))
    /\ pc' = Returned
    /\ result' = "panic"
    /\ held' = Drop(held)
    /\ enabled' = Counting(enabled, held')
    /\ UNCHANGED <<mainVars, name, members, counts, counts_2, out, lookups>>

\* group.disable()? succeeds (lines 146, 150).
DisableOk ==
    /\ Running /\ Cur.op = "disable"
    /\ enabled' = enabled \ {Cur.var}
    /\ log' = Append(log, Ev("disable", Cur.var, Cur.group, TRUE))
    /\ pc' = pc + 1
    /\ UNCHANGED <<mainVars, name, held, members, counts, counts_2, out, lookups, result>>

\* group.disable()? fails: the group is left counting until it is dropped.
DisableFail ==
    /\ Running /\ Cur.op = "disable"
    /\ log' = Append(log, Ev("disable", Cur.var, Cur.group, FALSE))
    /\ ReturnErr

\* group.read()? succeeds (lines 171, 172): one value per member of the group.
ReadOk ==
    /\ Running /\ Cur.op = "read"
    /\ \E r \in Readings(members[Cur.var]) :
          IF Cur.var = "group"
          THEN counts' = r /\ UNCHANGED counts_2
          ELSE counts_2' = r /\ UNCHANGED counts
    /\ log' = Append(log, Ev("read", Cur.var, Cur.group, TRUE))
    /\ pc' = pc + 1
    /\ UNCHANGED <<mainVars, name, held, members, enabled, out, lookups, result>>

\* A read placed after the header has been printed.
ReadFailAfterHeader ==
    /\ Running /\ Cur.op = "read"
    /\ log' = Append(log, Ev("read", Cur.var, Cur.group, FALSE))
    /\ pc' = Returned
    /\ result' = "err"
    /\ out' = out \o <<Rule, Header(name)>>
    /\ held' = Drop(held)
    /\ enabled' = Counting(enabled, held')
    /\ UNCHANGED <<mainVars, name, members, counts, counts_2, lookups>>

\* group.read()? fails.
ReadFail ==
    /\ Running /\ Cur.op = "read"
    /\ log' = Append(log, Ev("read", Cur.var, Cur.group, FALSE))
    /\ ReturnErr

\* Lines 174..286: compute the derived metrics, print the report, return Ok(()).
\* An index expression on a counter its reading lacks panics, after the lines
\* before it have been printed.
Report ==
    /\ Running /\ Cur.op = "report"
    /\ IF LookupsDefined(counts, counts_2)
       THEN /\ lookups' = ReportLookups
            /\ out' = out \o Printed(name, iterations, denominator, counts, counts_2)
            /\ result' = "ok"
       ELSE LET u == CHOOSE i \in UndefinedLookups(counts, counts_2) :
                        \A j \in UndefinedLookups(counts, counts_2) : i <= j
            IN  /\ lookups' = SubSeq(ReportLookups, 1, u)
                /\ out' = out \o SubSeq(Printed(name, iterations, denominator,
                                                Known(counts), Known(counts_2)),
                                        1, LinesBefore(u))
                /\ result' = "panic"
    /\ log' = Append(log, Ev("report", Cur.var, Cur.group, TRUE))
    /\ pc' = Returned
    /\ held' = Drop(held)
    /\ enabled' = Counting(enabled, held')
    /\ UNCHANGED <<mainVars, name, members, counts, counts_2>>

\* The k-th println! of the report panics because the write to standard
\* output fails: its arguments have been evaluated, the lines before it are
\* written (stdout is flushed at every newline), and the stack unwinds.
PrintPanics ==
    /\ Running /\ Cur.op = "report"
    /\ LET lines == Printed(name, iterations, denominator, Known(counts), Known(counts_2))
       IN  \E k \in 1..Len(LineLookups) :
              /\ \A u \in UndefinedLookups(counts, counts_2) : Len(LookupsThrough(k)) < u
              /\ lookups' = LookupsThrough(k)
              /\ out' = out \o SubSeq(lines, 1, k - 1)
    /\ result' = "panic"
    /\ log' = Append(log, Ev("report", Cur.var, Cur.group, FALSE))
    /\ pc' = Returned
    /\ held' = Drop(held)
    /\ enabled' = Counting(enabled, held')
    /\ UNCHANGED <<mainVars, name, members, counts, counts_2>>

Next ==
    \/ NewGroupOk
    \/ NewGroupFail
    \/ BuildOk
    \/ BuildFail
    \/ EnableOk
    \/ EnableFail
    \/ CallbackReturns
    \/ CallbackPanics
    \/ DisableOk
    \/ DisableFail
    \/ ReadOk
    \/ ReadFail
    \/ Report
    \/ PrintPanics

Spec == Init /\ [][Next]_vars

(***************************************************************************)
(* main (main.rs lines 299..499): sixteen calls of run_benchmarks, each    *)
(* followed by `?`, then Ok(()).  Every call passes four arguments (name,  *)
(* workload, item count, optional throughput denominator), the interface   *)
(* of the specification; run_benchmarks as declared at runner.rs line 65   *)
(* takes the first three, so main.rs does not build against it.  The call  *)
(* is modelled on the four-parameter interface, with the body of           *)
(* runner.rs, which reads neither hint.                                    *)
(***************************************************************************)
MainRunning == main_result.status = "running"

\* main calls run_benchmarks with the arguments of its k-th call, binding the
\* fourth to the denominator parameter of the specified interface.  The
\* locals of the call are fresh; descriptors still open and groups still
\* counting stay so.
StartCall(k) ==
    /\ call' = k
    /\ name' = MainCalls[k].name
    /\ iterations' = MainCalls[k].iterations
    /\ denominator' = MainCalls[k].denominator
    /\ started' = Append(started, MainCalls[k].name)
    /\ pc' = 1
    /\ members' = [g \in GroupVars |-> {}]
    /\ counts' = NoReading
    /\ counts_2' = NoReading
    /\ out' = <<>>
    /\ lookups' = <<>>
    /\ log' = <<>>
    /\ result' = "running"
    /\ UNCHANGED <<held, enabled>>

MainInit ==
    /\ call = 1
    /\ name = MainCalls[1].name
    /\ iterations = MainCalls[1].iterations
    /\ denominator = MainCalls[1].denominator
    /\ started = <<MainCalls[1].name>>
    /\ returns = <<>>
    /\ main_result = [status |-> "running", error |-> <<>>]
    /\ pc = 1
    /\ held = {}
    /\ members = [g \in GroupVars |-> {}]
    /\ enabled = {}
    /\ counts = NoReading
    /\ counts_2 = NoReading
    /\ out = <<>>
    /\ lookups = <<>>
    /\ log = <<>>
    /\ result = "running"

\* `?` on Ok(()), then the next call.
NextCall ==
    /\ MainRunning /\ call >= 1 /\ ~Running
    /\ result = "ok"
    /\ call < Len(MainCalls)
    /\ returns' = Append(returns, result)
    /\ StartCall(call + 1)
    /\ UNCHANGED main_result

\* A main that discards the result of a call and goes on to the next one.
MainIgnoresErr ==
    /\ MainRunning /\ call >= 1 /\ ~Running
    /\ result = "err"
    /\ call < Len(MainCalls)
    /\ returns' = Append(returns, result)
    /\ StartCall(call + 1)
    /\ UNCHANGED main_result

\* `?` on Err(e): main returns the error of the call.
MainReturnsErr ==
    /\ MainRunning /\ call >= 1 /\ ~Running
    /\ result = "err"
    /\ returns' = Append(returns, result)
    /\ main_result' = [status |-> "err", error |-> log[Len(log)]]
    /\ UNCHANGED <<name, pc, held, members, enabled, counts, counts_2, out, lookups, log,
                   result, iterations, denominator, call, started>>

\* The panic of a workload unwinds through main.
MainUnwinds ==
    /\ MainRunning /\ call >= 1 /\ ~Running
    /\ result = "panic"
    /\ returns' = Append(returns, result)
    /\ main_result' = [status |-> "panic", error |-> <<>>]
    /\ UNCHANGED <<name, pc, held, members, enabled, counts, counts_2, out, lookups, log,
                   result, iterations, denominator, call, started>>

\* Ok(()) after the last call (line 498).
MainReturnsOk ==
    /\ MainRunning /\ call >= 1 /\ ~Running
    /\ result = "ok"
    /\ call = Len(MainCalls)
    /\ returns' = Append(returns, result)
    /\ main_result' = [status |-> "ok", error |-> <<>>]
    /\ UNCHANGED <<name, pc, held, members, enabled, counts, counts_2, out, lookups, log,
                   result, iterations, denominator, call, started>>

\* The readings explored under main: a group whose counters all read the
\* smallest value of their range, or all the largest.
Quiet(r) == \A c \in DOMAIN r : \A v \in ValuesOf(c) : r[c] <= v

Busy(r) == \A c \in DOMAIN r : \A v \in ValuesOf(c) : v <= r[c]

MainEnv ==
    /\ counts = NoReading \/ Quiet(counts) \/ Busy(counts)
    /\ counts_2 = NoReading \/ Quiet(counts_2) \/ Busy(counts_2)

MainNext ==
    \/ NewGroupOk
    \/ NewGroupFail
    \/ BuildOk
    \/ BuildFail
    \/ EnableOk
    \/ EnableFail
    \/ CallbackReturns
    \/ CallbackPanics
    \/ DisableOk
    \/ DisableFail
    \/ ReadOk /\ MainEnv'
    \/ ReadFail
    \/ Report
    \/ PrintPanics
    \/ NextCall
    \/ MainReturnsErr
    \/ MainUnwinds
    \/ MainReturnsOk

MainSpec == MainInit /\ [][MainNext]_vars


(***************************************************************************)
(* Properties.                                                             *)
(***************************************************************************)
\* Positions in the log of the attempts of op on var, and of those with outcome ok.
Attempts(op, var) == {i \in 1..Len(log) : log[i].op = op /\ log[i].var = var}

Outcomes(op, var, ok) == {i \in Attempts(op, var) : log[i].ok = ok}

\* Positions of the workload invocations.
Callbacks == {i \in 1..Len(log) : log[i].op = "callback"}

\* Positions of the failed operations of kind op.
Failures(op) == {i \in 1..Len(log) : log[i].op = op /\ ~log[i].ok}

\* C1: in a call in which every open, enable, disable and read succeeds the
\* workload is invoked exactly twice, once per group, each invocation strictly
\* after that group's enable and strictly before that group's disable.
C1_OncePerGroup ==
    result = "ok" =>
        /\ Cardinality(Callbacks) = 2
        /\ \A g \in GroupVars :
              \E e \in Outcomes("enable", g, TRUE), d \in Outcomes("disable", g, TRUE) :
                  Cardinality({c \in Callbacks : e < c /\ c < d}) = 1
        /\ \A c \in Callbacks :
              \E g \in GroupVars :
                  \E e \in Outcomes("enable", g, TRUE), d \in Outcomes("disable", g, TRUE) :
                      e < c /\ c < d /\ log[c].during = {g}

C1_Witness == result = "ok" /\ Cardinality(Callbacks) = 2

\* C2: whenever the call has exited, by a normal return, an error return of an
\* enable, disable or read, or a panicking workload, no group is counting and
\* no handle opened by the call is still held.
C2_ReleasedOnExit == ~Running => held = {} /\ enabled = {}

\* The workload panicked while its group was enabled, and the call has unwound.
C2_Witness ==
    /\ ~Running
    /\ result = "panic"
    /\ \E c \in Callbacks : ~log[c].ok /\ log[c].during # {}

\* C3: when an open fails, everything opened before it in the call is
\* released, the error is returned, and the workload has not been invoked.
C3_OpenFailureUnwinds ==
    \A i \in Failures("open") :
        /\ i = Len(log)
        /\ ~Running
        /\ result = "err"
        /\ held = {}
        /\ Callbacks = {}
        /\ out = <<>>

\* The last counter of the second group fails to open, after 13 successful opens.
C3_Witness ==
    \E i \in Failures("open") :
        /\ log[i].var = "l2_cache_hits_from_dc_misses"
        /\ Cardinality({j \in 1..(i - 1) : log[j].op = "open" /\ log[j].ok}) = i - 1
        /\ i > Cardinality(GroupVars)


\* The metric lines of the printed report.
MetricLines == {i \in 1..Len(out) : out[i].kind = "metric"}

\* The printed line whose label is l.
LineOf(l) == out[CHOOSE i \in MetricLines : out[i].name = l]

\* C4: a derived metric whose denominator is zero is rendered as a defined
\* placeholder: no printed info field is NaN or an infinity.
C4_NoNaNOrInfinity ==
    \A i \in MetricLines :
        out[i].info \notin {FmtF64(NaN, InfoPrecision), FmtF64(Infinity, InfoPrecision)}

\* The divisor the /sec rates are specified with: the task-clock in seconds.
ClaimedSeconds(c1) ==
    F64Div(AsF64(Index(c1, "task_clock")), AsF64(NsecPerMsec * 1000))

ClaimedRate(c1, counter) ==
    FmtF64(F64Div(AsF64(Index(c1, counter)), ClaimedSeconds(c1)), InfoPrecision)

\* C5: with a task-clock reading > 0, every /sec line shows
\* raw_count / (task_clock_ns / 10^9), and the task-clock line shows
\* task_clock_ns / 10^6 milliseconds.
C5_RatePerSecond ==
    (result = "ok" /\ Index(counts, "task_clock") > 0) =>
        /\ LineOf("task-clock").count =
               PadLeft(FmtF64(F64Div(AsF64(Index(counts, "task_clock")),
                                     AsF64(NsecPerMsec)), CountPrecision), CountWidth)
        /\ LineOf("context-switches").info = ClaimedRate(counts, "context_switches")
        /\ LineOf("cpu-migrations").info = ClaimedRate(counts, "cpu_migrations")
        /\ LineOf("page-faults").info = ClaimedRate(counts, "page_faults")
        /\ \A l \in {"context-switches", "cpu-migrations", "page-faults"} :
              LineOf(l).info_unit = "/sec"

\* The open, enable, disable and read statements of the call.
OsOps == {"open", "enable", "disable", "read"}

OsStmts == {i \in 1..Len(Program) : Program[i].op \in {"new_group", "build"} \cup OsOps}

\* Every open, enable, disable and read of the call was executed and succeeded.
AllStepsSucceeded ==
    Cardinality({i \in 1..Len(log) : log[i].op \in OsOps /\ log[i].ok})
        = Cardinality(OsStmts)

\* C6 as stated: the call returns Ok exactly when every open, enable, disable
\* and read succeeded, and then the full report has been printed once; on an
\* error return nothing has been printed, not even the header.
C6_ReportIffOk ==
    /\ result = "ok" <=> (~Running /\ AllStepsSucceeded)
    /\ result = "ok" => out = ReportLines(name, counts, counts_2)
    /\ result = "err" => out = <<>>

\* A println! of the report panicked on a failed write to standard output.
PrintFailed == \E i \in 1..Len(log) : log[i].op = "report" /\ ~log[i].ok

\* C6 amended: the call returns Ok exactly when every open, enable, disable
\* and read succeeded and every write of the report succeeded, and then the
\* full report has been printed once; on an error return nothing has been
\* printed; when a write of the report fails the call panics and the lines
\* written before it, a proper prefix of the report, stay printed.
C6_ReportIffOkAndWritten ==
    /\ result = "ok" <=> (~Running /\ AllStepsSucceeded /\ ~PrintFailed)
    /\ result = "ok" => out = ReportLines(name, counts, counts_2)
    /\ result = "err" => out = <<>>
    /\ PrintFailed =>
          /\ result = "panic"
          /\ AllStepsSucceeded
          /\ LET lines == ReportLines(name, counts, counts_2)
             IN  Len(out) < Len(lines) /\ out = SubSeq(lines, 1, Len(out))
    /\ (result = "panic" /\ ~PrintFailed) => out = <<>>

\* The read of the second group failed, after the read of the first succeeded.
C6_Witness ==
    /\ result = "err"
    /\ Outcomes("read", "group", TRUE) # {}
    /\ Outcomes("read", "group_2", FALSE) # {}

\* C7 as stated: the totals of the first group are read after its disable and
\* before the second group is enabled, and the totals of the second group are
\* read after its own disable.
C7_ReadBeforeNextGroup ==
    /\ \A e \in Attempts("enable", "group_2") :
          \E r \in Attempts("read", "group"), d \in Outcomes("disable", "group", TRUE) :
              d < r /\ r < e
    /\ \A r \in Attempts("read", "group_2") :
          \E d \in Outcomes("disable", "group_2", TRUE) : d < r

\* C7 amended: the two groups go through enable, workload, disable one after
\* the other, and only then are the totals read, the first group's and then
\* the second group's; every read follows the disable of both groups.
C7_ReadsAfterBothCycles ==
    /\ \A g \in GroupVars :
          \A r \in Attempts("read", g) :
              \A h \in GroupVars :
                  \E e \in Outcomes("enable", h, TRUE), d \in Outcomes("disable", h, TRUE) :
                      \E c \in Callbacks : e < c /\ c < d /\ d < r
    /\ \A d \in Attempts("disable", "group") :
          \A e \in Attempts("enable", "group_2") : d < e
    /\ \A r2 \in Attempts("read", "group_2") :
          \E r1 \in Outcomes("read", "group", TRUE) : r1 < r2

C7_Witness ==
    /\ Outcomes("read", "group", TRUE) # {}
    /\ Outcomes("read", "group_2", TRUE) # {}

\* The counter a report line is about, and the reading the claim has it come from.
CounterOfLine ==
    [l \in {"context-switches", "cpu-migrations", "page-faults", "cycles",
            "instructions", "cache accesses", "L1D cache loads", "L1D cache misses",
            "L1D cache prefetches", "L2 accesses from L1 misses",
            "L2 hits from L1 misses"} |->
        CASE l = "context-switches" -> "context_switches"
          [] l = "cpu-migrations" -> "cpu_migrations"
          [] l = "page-faults" -> "page_faults"
          [] l = "cycles" -> "cycles"
          [] l = "instructions" -> "instructions"
          [] l = "cache accesses" -> "cache_accesses"
          [] l = "L1D cache loads" -> "l1_cache_loads"
          [] l = "L1D cache misses" -> "l1_cache_misses"
          [] l = "L1D cache prefetches" -> "l1_cache_prefetches"
          [] l = "L2 accesses from L1 misses" -> "l2_cache_accesses_from_dc_misses"
          [] l = "L2 hits from L1 misses" -> "l2_cache_hits_from_dc_misses"]

\* The reading of the group a counter is registered in.
ReadingOf(counter) == IF counter \in members["group"] THEN counts ELSE counts_2

\* Each counter is registered in exactly one group, and is looked up in the
\* reading of that group only.
PartitionedLookups ==
    /\ members["group"] \cap members["group_2"] = {}
    /\ members["group"] \cup members["group_2"] = CounterVars
    /\ \A c \in CounterVars :
          {i \in 1..Len(lookups) : lookups[i].counter = c} # {}
    /\ \A i \in 1..Len(lookups) :
          lookups[i].counter \in
              members[IF lookups[i].reading = "counts" THEN "group" ELSE "group_2"]

\* C8: after a successful call each of the twelve counters belongs to exactly
\* one group, its value is looked up in the reading of that group only, and
\* the value appears on a report line (the task-clock in milliseconds, every
\* other counter as its count).
C8_EveryCounterReported ==
    result = "ok" =>
        /\ PartitionedLookups
        /\ LineOf("task-clock").count =
               PadLeft(FmtF64(F64Div(AsF64(Index(counts, "task_clock")),
                                     AsF64(NsecPerMsec)), CountPrecision), CountWidth)
        /\ \A l \in DOMAIN CounterOfLine :
              LineOf(l).count =
                  PadLeft(separate_with_underscores(
                              Index(ReadingOf(CounterOfLine[l]), CounterOfLine[l])),
                          CountWidth)

\* C9: an enable or disable that fails is attempted exactly once, its error is
\* returned, and no later step runs: no workload invocation, enable, disable
\* or read follows it and nothing is printed.
C9_NoRetry ==
    /\ \A g \in GroupVars :
          /\ Cardinality(Attempts("enable", g)) <= 1
          /\ Cardinality(Attempts("disable", g)) <= 1
    /\ \A i \in Failures("enable") \cup Failures("disable") :
          /\ i = Len(log)
          /\ ~Running
          /\ result = "err"
          /\ out = <<>>
          /\ counts = NoReading /\ counts_2 = NoReading
          /\ log[i].op = "enable" =>
                 \A c \in Callbacks : log[c].group # log[i].group

\* The disable of the first group failed: the second group was never enabled.
C9_Witness ==
    /\ Outcomes("disable", "group", FALSE) # {}
    /\ Attempts("enable", "group_2") = {}
    /\ ~Running

\* The label of a printed line; the separators and the two header lines by kind.
LabelOf(line) == IF line.kind = "metric" THEN line.name ELSE line.kind

\* C10: a successful call prints its lines in one fixed order, whatever the
\* counter values and the benchmark name.
C10_FixedOrder ==
    result = "ok" =>
        [i \in 1..Len(out) |-> LabelOf(out[i])] =
            << "rule", "header",
               "task-clock", "context-switches", "cpu-migrations", "page-faults",
               "blank",
               "cycles", "instructions",
               "blank",
               "cache accesses", "L1D cache loads", "L1D cache misses",
               "L1D cache prefetches", "L2 accesses from L1 misses",
               "L2 hits from L1 misses" >>

\* A report in which instructions outnumber cycles and the task-clock is zero.
C10_Witness ==
    /\ result = "ok"
    /\ name = "bench_sum_of_array_unrolled"
    /\ Index(counts, "instructions") > Index(counts, "cycles")
    /\ Index(counts, "task_clock") = 0
    /\ Index(counts_2, "l2_cache_accesses_from_dc_misses") = SmallCount


\* The operation a statement is logged as.
LoggedOp(stmt) == IF stmt.op \in {"new_group", "build"} THEN "open" ELSE stmt.op

\* C11: the hints are cosmetic.  A call made with the other pair of hints, the
\* same name and the same outcomes and readings of the counter operations has
\* the same statements to execute, so performs the operations and workload
\* invocations logged so far, and prints what this call has printed (the
\* whole report, or the lines written before a println! panicked).
C11_HintsCosmetic ==
    \A h \in CallHints :
        /\ Statements(name, h.iterations, h.denominator) = Body
        /\ \A i \in 1..Len(log) :
              LET stmt == Statements(name, h.iterations, h.denominator)[i]
              IN  log[i].op = LoggedOp(stmt) /\ log[i].var = stmt.var
        /\ result = "ok" =>
               out = Printed(name, h.iterations, h.denominator, counts, counts_2)
        /\ (result # "ok" /\ out # <<>>) =>
               out = SubSeq(Printed(name, h.iterations, h.denominator, counts, counts_2),
                            1, Len(out))

\* A call with a throughput denominator and the halved item count has printed
\* its report, with nonzero cycles.
C11_Witness ==
    /\ result = "ok"
    /\ denominator.some
    /\ iterations = Items(1000, ITER_COUNT, 2)
    /\ Index(counts, "cycles") > 0
    /\ \E h \in CallHints : ~h.denominator.some /\ h.iterations # iterations


\* The counters of a type.
OfType(t) == {c \in CounterVars : CounterSpecs[c].type = t}

\* Every statement up to the last open has been executed successfully.
AllOpened == pc > Len(OpenStmts) /\ Failures("open") = {}

\* C12: the counters are split over exactly two groups: a hardware or software
\* counter is only ever registered in the primary group, `group`; a raw code
\* only in the secondary group, `group_2`; no group holds both a raw code and
\* a cache counter; once all opens are done, the primary group holds every
\* hardware and software counter and the secondary both raw codes, 0xc860
\* and 0x7064.
C12_GroupPolicy ==
    /\ DOMAIN members = {"group", "group_2"}
    /\ members["group"] \cap (OfType("hardware") \cup OfType("software"))
           = (members["group"] \cup members["group_2"])
                 \cap (OfType("hardware") \cup OfType("software"))
    /\ members["group"] \cap OfType("raw") = {}
    /\ \A g \in DOMAIN members :
          members[g] \cap OfType("raw") = {} \/ members[g] \cap OfType("cache") = {}
    /\ AllOpened =>
          /\ OfType("hardware") \cup OfType("software") \subseteq members["group"]
          /\ members["group_2"] = OfType("raw")
          /\ {CounterSpecs[c].config : c \in members["group_2"]} = {51296, 28772}
          /\ members["group"] \cup members["group_2"] = CounterVars
          /\ GroupVars \subseteq held \/ ~Running

\* Both groups and all twelve counters are open, and the first group is counting.
C12_Witness ==
    /\ AllOpened
    /\ Running
    /\ Cardinality(held) = Len(OpenStmts)
    /\ enabled = {"group"}


\* C13: the steps of a call never overlap: at most one group is enabled at any
\* time; the workload runs only while exactly one group is enabled; each group
\* is enabled at most once and disabled at most once; no counter is opened or
\* read while a group is enabled.
C13_NoOverlap ==
    /\ Cardinality(enabled) <= 1
    /\ \A c \in Callbacks : Cardinality(log[c].during) = 1
    /\ (Running /\ Cur.op = "callback") => Cardinality(enabled) = 1
    /\ \A g \in GroupVars :
          /\ Cardinality(Attempts("enable", g)) <= 1
          /\ Cardinality(Attempts("disable", g)) <= 1
    /\ \A i \in 1..Len(log) : log[i].op \in {"open", "read"} => log[i].during = {}
    /\ (Running /\ Cur.op \in {"new_group", "build", "read"}) => enabled = {}

\* The workload is about to run for the second time, under the second group only.
C13_Witness ==
    /\ Running /\ Cur.op = "callback"
    /\ enabled = {"group_2"}
    /\ Cardinality(Callbacks) = 1
    /\ Outcomes("disable", "group", TRUE) # {}


\* C14: main calls run_benchmarks once per benchmark in the listed order; each
\* call starts with no handle held and no group counting; every call before
\* the current one returned Ok; when a call returns an error main returns that
\* error and no later call is started, so no later workload is invoked; main
\* returns Ok only after all sixteen calls returned Ok.
C14_MainStopsAtFirstError ==
    /\ call \in 1..Len(MainCalls)
    /\ started = [i \in 1..call |-> MainCalls[i].name]
    /\ name = MainCalls[call].name
    /\ pc = 1 => held = {} /\ enabled = {}
    /\ Len(returns) = IF MainRunning THEN call - 1 ELSE call
    /\ \A i \in 1..Len(returns) : returns[i] # "ok" => i = call /\ ~MainRunning
    /\ ~MainRunning =>
          /\ ~Running
          /\ main_result.status = result
          /\ returns[call] = result
    /\ main_result.status = "err" =>
          /\ Len(log) > 0
          /\ main_result.error = log[Len(log)]
          /\ ~main_result.error.ok
          /\ \A c \in Callbacks : c < Len(log)
    /\ main_result.status = "ok" => call = Len(MainCalls)

\* The third call of main failed to read its second group and main returned
\* that error.
C14_Witness ==
    /\ main_result.status = "err"
    /\ call = Cardinality(GroupVars) + 1
    /\ main_result.error.op = "read"
    /\ main_result.error.var = "group_2"
    /\ returns = <<"ok", "ok", "err">>

====
